---- MODULE Spec2Model ----
(***************************************************************************)
(* Sequential ID allocator of the ubadmv1 back office:                     *)
(* generate_custom_id (src/ubadmv1/database.py) over the id_counters and   *)
(* users tables created by create_tables.                                  *)
(*                                                                         *)
(* Each worker runs one call of generate_custom_id at a time; the call is  *)
(* split at its database statements (connect, owner lookup, locking read,  *)
(* UPDATE/INSERT, commit, formatting), which is where other connections    *)
(* can interleave.  The store is MySQL/InnoDB as the schema declares it:   *)
(*   - SELECT ... FOR UPDATE takes the exclusive lock of the row it finds  *)
(*     and waits while another transaction holds it; when it finds no row  *)
(*     there is no row to lock;                                            *)
(*   - an INSERT holds the lock of the new row until its transaction ends; *)
(*     a second INSERT of the same primary key waits for that transaction  *)
(*     and then fails (duplicate key; with gap locking the loser is the    *)
(*     deadlock victim instead: either way it raises a storage error);     *)
(*   - counter_type is an ENUM column with a case-insensitive collation:   *)
(*     a string that is no member is refused by the server (strict SQL     *)
(*     mode, the server default), a member in another letter case is       *)
(*     the member;                                                         *)
(*   - under REPEATABLE READ, the server default, a SELECT ... FOR UPDATE  *)
(*     that finds no row locks the gap of the primary index the row would  *)
(*     be in, and an INSERT into a gap waits for every other transaction   *)
(*     that holds a lock on it; two transactions that wait for each other  *)
(*     are a deadlock, which the server ends by rolling one of them back.  *)
(*     Under READ COMMITTED there are no gap locks.  The level is server   *)
(*     configuration: the code sets none;                                  *)
(*   - id_counters.user_id, projects.user_id, quotes.user_id and           *)
(*     quotes.project_id are foreign keys ON DELETE CASCADE.               *)
(*                                                                         *)
(* AdminManager.create_quote and AdminManager.delete_user                  *)
(* (src/ubadmv1/admin.py) are the operations of the back office that call  *)
(* the allocator or touch the tables it depends on.  Every AdminManager    *)
(* call runs on the one connection of the module-level admin_manager, in   *)
(* the thread of its request (app.run serves each request in a thread of   *)
(* its own): the statements of the calls in progress share a transaction,  *)
(* which a commit or a rollback of any of them ends.  generate_custom_id   *)
(* opens a connection of its own for each call.                            *)
(*                                                                         *)
(* The admin accounts (register_admin, verify_admin_otp, admin_login,      *)
(* verify_admin_session, admin_logout, remove_admin) and the endpoints     *)
(* under /admin/api/ (src/ubadmv1/app.py) are modelled over the admins,    *)
(* admin_otp_codes and admin_sessions tables.                              *)
(***************************************************************************)
EXTENDS Integers, Sequences, FiniteSets, Bags, TLC

VARIABLES
    users,        \* users table: the user_id values that have a row
    id_counters,  \* id_counters table: the committed rows, key -> stored cell
    rowLock,      \* exclusive row locks: locked key -> the worker holding it
    gapLock,      \* gap locks of the primary index of id_counters
    isolation,    \* transaction isolation level of the server
    projects,     \* projects table: project_id -> owner, status, amount
    quotes,       \* quotes table: the rows, by quote_id, project and owner
    cq,           \* create_quote: where each worker is inside it
    pc,           \* position of each worker inside generate_custom_id
    args,         \* (counter_type, year, user_id) of the running call
    result,       \* the row fetched by the locking read
    counter,      \* local variable counter
    outcome,      \* what the call gave its caller
    stored,       \* history: the value the call committed (0: nothing)
    issued,       \* history: the allocations handed to callers, in order
    calls,        \* calls started so far
    edits,        \* cells rewritten from outside the program so far
    committed,    \* admin connection: its tables as of its last commit
    admins,       \* admins table: email -> row
    admin_otp_codes,  \* admin_otp_codes table: otp_id -> row
    admin_sessions,   \* admin_sessions table: session_id -> row
    thread,       \* the AdminManager call each worker's request is in
    audit         \* history of the admin calls

\* the allocator and the order tables
allocatorVars ==
    <<users, id_counters, rowLock, gapLock, isolation, projects, quotes, cq,
      pc, args, result, counter, outcome, stored, issued, calls, edits>>

\* the admin accounts
authVars == <<admins, admin_otp_codes, admin_sessions, thread, audit>>

vars == <<users, id_counters, rowLock, gapLock, isolation, projects, quotes,
          cq, pc, args, result, counter, outcome, stored, issued, calls, edits,
          committed, admins, admin_otp_codes, admin_sessions, thread, audit>>

----------------------------------------------------------------------------
(* Bounds *)

\* calls of generate_custom_id started in one behaviour
MaxCalls == 3

\* requests to the admin account handlers in one behaviour
MaxRequests == 5

\* cells of id_counters rewritten from outside the program in one behaviour
MaxEdits == 1

----------------------------------------------------------------------------
(* Universe of inputs *)

Procs == {"w1", "w2"}
NoProc == "none"

\* Python None passed as user_id
None == "None"

\* the members of id_counters.counter_type, create_tables
EnumTypes == {"client", "project", "quote", "order"}

Years == {"2024", "2025"}

Request(ct, year, uid) == [ct |-> ct, year |-> year, uid |-> uid]

\* The calls the workers make: each of the five documented kinds, a second
\* year and a second owner, the two ways of naming no owner (an unknown
\* user_id, None), a documented kind in another letter case and a string
\* that is no kind at all.
Requests ==
    {Request("client", "2025", None),
     Request("project", "2024", "UB2024C1"),
     Request("project", "2025", "UB2024C1"),
     Request("project", "2024", "NO_SUCH_USER"),
     Request("project", "2024", None),
     Request("quote", "2024", "UB2024C2"),
     Request("order", "2024", "UB2024C1"),
     Request("file", "2024", "UB2024C1"),
     Request("Project", "2024", "UB2024C1"),
     Request("bogus", "2024", "UB2024C1")}

\* user_id values a counter row can carry
UserIds == {"GLOBAL", "UB2024C1", "UB2024C2", "NO_SUCH_USER"}

Keys == [ct : EnumTypes, year : Years, uid : UserIds]

----------------------------------------------------------------------------
(* Stored cells and fetched rows *)

IntVal(n) == [t |-> "int", n |-> n, s |-> <<>>]
StrVal(s) == [t |-> "str", n |-> 0, s |-> s]
\* a float, kept in tenths: FloatVal(25) is 2.5
FloatVal(tenths) == [t |-> "float", n |-> tenths, s |-> <<>>]
NullVal == [t |-> "null", n |-> 0, s |-> <<>>]
DateVal == [t |-> "date", n |-> 0, s |-> <<>>]
\* fetchone() returned None / the table has no row for the key
NoRow == [t |-> "norow", n |-> 0, s |-> <<>>]

Digits == {"0", "1", "2", "3", "4", "5", "6", "7", "8", "9"}

DigitValue(c) ==
    CASE c = "0" -> 0 [] c = "1" -> 1 [] c = "2" -> 2 [] c = "3" -> 3
      [] c = "4" -> 4 [] c = "5" -> 5 [] c = "6" -> 6 [] c = "7" -> 7
      [] c = "8" -> 8 [] c = "9" -> 9

\* str.isdigit(): non-empty and every character a digit
IsDigit(s) == Len(s) > 0 /\ \A i \in 1..Len(s) : s[i] \in Digits

\* int(str) of a string of digits
RECURSIVE StrToInt(_)
StrToInt(s) ==
    IF Len(s) = 0 THEN 0
    ELSE 10 * StrToInt(SubSeq(s, 1, Len(s) - 1)) + DigitValue(s[Len(s)])

\* FloatToInt rounding away from zero
FloatToInt_RoundsUp(tenths) ==
    IF tenths >= 0 THEN (tenths + 9) \div 10 ELSE -((9 - tenths) \div 10)

\* int(float): truncation toward zero
FloatToInt(tenths) ==
    IF tenths >= 0 THEN tenths \div 10 ELSE -((-tenths) \div 10)

----------------------------------------------------------------------------
(* Pure parts of generate_custom_id *)

\* EffectiveUserId with one scope shared by every caller
EffectiveUserId_Shared(ct, uid) == "GLOBAL"

\* EffectiveUserId with the user_id as it was passed
EffectiveUserId_AsPassed(ct, uid) == uid

\* effective_user_id = 'GLOBAL' if counter_type == 'client' else user_id
EffectiveUserId(ct, uid) == IF ct = "client" THEN "GLOBAL" ELSE uid

\* The member of the ENUM column a counter_type string denotes under the
\* column's case-insensitive collation, "" when it denotes none.
EnumMember(ct) ==
    CASE ct \in EnumTypes -> ct
      [] ct = "Project" -> "project"
      [] OTHER -> ""

\* The primary key (counter_type, year, user_id) the statements of a call
\* address in id_counters.
RowKey(ct, year, uid) ==
    [ct |-> EnumMember(ct), year |-> year, uid |-> EffectiveUserId(ct, uid)]

\* NextCounter with the fallback value off by one
NextCounter_FallbackZero(value) ==
    CASE value.t = "int" -> value.n + 1
      [] value.t = "str" /\ IsDigit(value.s) -> StrToInt(value.s) + 1
      [] value.t = "float" -> FloatToInt(value.n) + 1
      [] OTHER -> 0

\* NextCounter without the increment of an integer cell
NextCounter_NoIncrement(value) ==
    CASE value.t = "int" -> value.n
      [] value.t = "str" /\ IsDigit(value.s) -> StrToInt(value.s) + 1
      [] value.t = "float" -> FloatToInt(value.n) + 1
      [] OTHER -> 1

\* NextCounter with the fallback value two
NextCounter_FallbackTwo(value) ==
    CASE value.t = "int" -> value.n + 1
      [] value.t = "str" /\ IsDigit(value.s) -> StrToInt(value.s) + 1
      [] value.t = "float" -> FloatToInt(value.n) + 1
      [] OTHER -> 2

\* NextCounter with an integer cell advanced by two
NextCounter_SkipsOne(value) ==
    CASE value.t = "int" -> value.n + 2
      [] value.t = "str" /\ IsDigit(value.s) -> StrToInt(value.s) + 1
      [] value.t = "float" -> FloatToInt(value.n) + 1
      [] OTHER -> 1

\* counter computed from the fetched cell: the isinstance chain
NextCounter(value) ==
    CASE value.t = "int" -> value.n + 1
      [] value.t = "str" /\ IsDigit(value.s) -> StrToInt(value.s) + 1
      [] value.t = "float" -> FloatToInt(value.n) + 1
      [] OTHER -> 1

\* counter_type values the if/elif chain formats
Formattable(ct) == ct \in {"client", "project", "quote", "order", "file"}

\* FormatId with the quote branch copied from the project branch
FormatId_QuoteAsProject(ct, year, uid, n) ==
    CASE ct = "client" -> "UB" \o year \o "C" \o ToString(n)
      [] ct = "project" -> uid \o "P" \o ToString(n)
      [] ct = "quote" -> uid \o "P" \o ToString(n)
      [] ct = "order" -> uid \o "OR" \o ToString(n)
      [] ct = "file" -> uid \o "F" \o ToString(n)

\* generated_id of the if/elif chain
FormatId(ct, year, uid, n) ==
    CASE ct = "client" -> "UB" \o year \o "C" \o ToString(n)
      [] ct = "project" -> uid \o "P" \o ToString(n)
      [] ct = "quote" -> uid \o "Q" \o ToString(n)
      [] ct = "order" -> uid \o "OR" \o ToString(n)
      [] ct = "file" -> uid \o "F" \o ToString(n)

----------------------------------------------------------------------------
(* State *)

NoArgs == [ct |-> "", year |-> "", uid |-> ""]
NoOutcome == [kind |-> "none", id |-> "", n |-> 0]
Returned(id, n) == [kind |-> "ok", id |-> id, n |-> n]
Raised(err) == [kind |-> err, id |-> "", n |-> 0]

\* what the key of the call addresses, when its counter_type denotes a member
KeyOf(p) == RowKey(args[p].ct, args[p].year, args[p].uid)
HasKey(p) == KeyOf(p) \in Keys

\* the cell stored under key k, NoRow when the table has no such row
Cell(k) == IF k \in DOMAIN id_counters THEN id_counters[k] ELSE NoRow

\* the worker holding the lock of the row of key k, NoProc when it is free
Holder(k) == IF k \in DOMAIN rowLock THEN rowLock[k] ELSE NoProc

\* f with key k mapped to v
Put(f, k, v) == [x \in DOMAIN f \cup {k} |-> IF x = k THEN v ELSE f[x]]

\* the isolation levels a server can be configured with that differ in their
\* locking of a row that is not there
Isolations == {"REPEATABLE-READ", "READ-COMMITTED"}

\* Position of a key in the primary index (counter_type, year, user_id): an
\* ENUM sorts by the index of its member, the strings by their collation.
TypeRank(ct) ==
    CASE ct = "client" -> 1 [] ct = "project" -> 2 [] ct = "quote" -> 3
      [] ct = "order" -> 4

YearRank(year) == CASE year = "2024" -> 1 [] year = "2025" -> 2

UidRank(uid) ==
    CASE uid = "GLOBAL" -> 1 [] uid = "NO_SUCH_USER" -> 2
      [] uid = "UB2024C1" -> 3 [] uid = "UB2024C2" -> 4

Rank(k) == 100 * TypeRank(k.ct) + 10 * YearRank(k.year) + UidRank(k.uid)

\* the index records: committed rows and rows inserted but not yet committed
IndexRecords == DOMAIN id_counters \cup DOMAIN rowLock

\* the gap of the index a missing key lies in: from the record before it
\* (0: the start of the index) to the record after it (1000: the supremum)
GapLow(k) ==
    LET below == {Rank(x) : x \in {y \in IndexRecords : Rank(y) < Rank(k)}} \cup {0}
    IN CHOOSE r \in below : \A o \in below : o <= r

GapHigh(k) ==
    LET above == {Rank(x) : x \in {y \in IndexRecords : Rank(y) > Rank(k)}} \cup {1000}
    IN CHOOSE r \in above : \A o \in above : r <= o

\* worker q holds a lock on the gap the row of p's call would be inserted in
GapHeldBy(q, p) ==
    \E g \in gapLock :
        g.p = q /\ g.lo < Rank(KeyOf(p)) /\ Rank(KeyOf(p)) < g.hi

\* the project that exists, and projects that do not
ProjectIds == {"UB2024C2P1", "NO_SUCH_PROJECT"}

\* total_price values of a quote
Prices == {150}

\* create_quote is not running on the worker
NoQuoteCall ==
    [stage |-> "none", project |-> "", uid |-> "", year |-> "", price |-> 0,
     ok |-> FALSE, alloc |-> "none"]

\* no AdminManager call of the account handlers is running on the worker
NoHandler ==
    [op |-> "idle", stage |-> "idle", admin_type |-> "", email |-> "",
     password |-> <<>>, otp |-> "", otp_id |-> 0, session_id |-> 0,
     accepted |-> FALSE, answer |-> "none"]

\* nothing has happened to the admin accounts yet
NoAudit ==
    [requests |-> 0, otps |-> 0, tokens |-> 0, created |-> {},
     logged_out |-> {}, removed |-> {}, verified |-> {}, uses |-> <<>>]

\* the tables the admin connection reads and writes
Snapshot ==
    [projects |-> projects, quotes |-> quotes, admins |-> admins,
     admin_otp_codes |-> admin_otp_codes, admin_sessions |-> admin_sessions]

\* the rows create_tables, two client registrations of 2024 and the first
\* project of UB2024C2 leave behind
InitialCounters ==
    [k \in {[ct |-> "client", year |-> "2024", uid |-> "GLOBAL"],
            [ct |-> "project", year |-> "2024", uid |-> "UB2024C2"]} |->
        IF k.ct = "client" THEN IntVal(2) ELSE IntVal(1)]

InitialProjects ==
    [i \in {"UB2024C2P1"} |->
        [user_id |-> "UB2024C2", status |-> "uploaded", amount |-> 0]]

Init ==
    /\ users = {"GLOBAL", "UB2024C1", "UB2024C2"}
    /\ id_counters = InitialCounters
    /\ rowLock = <<>>
    /\ gapLock = {}
    /\ isolation \in Isolations
    /\ projects = InitialProjects
    /\ quotes = {}
    /\ cq = [p \in Procs |-> NoQuoteCall]
    /\ pc = [p \in Procs |-> "idle"]
    /\ args = [p \in Procs |-> NoArgs]
    /\ result = [p \in Procs |-> NoRow]
    /\ counter = [p \in Procs |-> 0]
    /\ outcome = [p \in Procs |-> NoOutcome]
    /\ stored = [p \in Procs |-> 0]
    /\ issued = <<>>
    /\ calls = 0
    /\ edits = 0
    /\ admins = <<>>
    /\ admin_otp_codes = <<>>
    /\ admin_sessions = <<>>
    /\ thread = [p \in Procs |-> NoHandler]
    /\ audit = NoAudit
    /\ committed = Snapshot

----------------------------------------------------------------------------
(* generate_custom_id, statement by statement *)

\* connection.rollback() / connection.close(): the locks of p are released
ReleaseLocks(p) == [k \in {x \in DOMAIN rowLock : rowLock[x] # p} |-> rowLock[k]]

\* the gap locks left when the transaction of p ends
ReleaseGaps(p) == {g \in gapLock : g.p # p}

\* except: rollback, raise; finally: close
Raise(p, err) ==
    /\ rowLock' = ReleaseLocks(p)
    /\ gapLock' = ReleaseGaps(p)
    /\ outcome' = [outcome EXCEPT ![p] = Raised(err)]
    /\ pc' = [pc EXCEPT ![p] = "done"]

\* the worker runs no call: it never ran one, or its last call has ended and
\* the caller holds what it returned or raised
Free(p) ==
    /\ pc[p] \in {"idle", "done"}
    /\ cq[p].stage \in {"none", "returned"}
    /\ thread[p].stage \in {"idle", "returned"}

\* the call create_quote makes: generate_custom_id('quote', current_year, user_id)
QuoteRequest(p) == Request("quote", cq[p].year, cq[p].uid)

\* generate_custom_id is entered with req: by create_quote at its call, or
\* by any other caller on a free worker
Entered(p, req) ==
    IF cq[p].stage = "allocate" THEN req = QuoteRequest(p) ELSE Free(p)

\* create_quote is inside its call; any other caller is not create_quote
InCall(p) ==
    [cq EXCEPT ![p] = IF @.stage = "allocate"
                      THEN [@ EXCEPT !.stage = "allocating"]
                      ELSE NoQuoteCall]

\* get_db_connection() returned a connection; cursor opened
Connect(p, req) ==
    /\ Entered(p, req)
    /\ calls < MaxCalls
    /\ calls' = calls + 1
    /\ cq' = InCall(p)
    /\ args' = [args EXCEPT ![p] = req]
    /\ result' = [result EXCEPT ![p] = NoRow]
    /\ counter' = [counter EXCEPT ![p] = 0]
    /\ outcome' = [outcome EXCEPT ![p] = NoOutcome]
    /\ stored' = [stored EXCEPT ![p] = 0]
    /\ pc' = [pc EXCEPT ![p] = "owner"]
    /\ UNCHANGED <<users, id_counters, rowLock, gapLock, isolation, committed,
                   authVars, projects, quotes, issued, edits>>

\* ConnectFail with the function going on without a connection
ConnectFail_GoesOn(p, req) ==
    /\ Entered(p, req)
    /\ calls < MaxCalls
    /\ calls' = calls + 1
    /\ cq' = InCall(p)
    /\ args' = [args EXCEPT ![p] = req]
    /\ result' = [result EXCEPT ![p] = NoRow]
    /\ counter' = [counter EXCEPT ![p] = 0]
    /\ outcome' = [outcome EXCEPT ![p] = Raised("ConnectionFailed")]
    /\ stored' = [stored EXCEPT ![p] = 0]
    /\ pc' = [pc EXCEPT ![p] = "owner"]
    /\ UNCHANGED <<users, id_counters, rowLock, gapLock, isolation, committed,
                   authVars, projects, quotes, issued, edits>>

\* get_db_connection() returned None: raised before the try block
ConnectFail(p, req) ==
    /\ Entered(p, req)
    /\ calls < MaxCalls
    /\ calls' = calls + 1
    /\ cq' = InCall(p)
    /\ args' = [args EXCEPT ![p] = req]
    /\ result' = [result EXCEPT ![p] = NoRow]
    /\ counter' = [counter EXCEPT ![p] = 0]
    /\ outcome' = [outcome EXCEPT ![p] = Raised("ConnectionFailed")]
    /\ stored' = [stored EXCEPT ![p] = 0]
    /\ pc' = [pc EXCEPT ![p] = "done"]
    /\ UNCHANGED <<users, id_counters, rowLock, gapLock, isolation, committed,
                   authVars, projects, quotes, issued, edits>>

\* OwnerExists with the fetched row never looked at
OwnerExists_Unchecked(uid) == TRUE

\* the owner lookup; a comparison with NULL (user_id None) matches no row
OwnerExists(uid) == uid # None /\ uid \in users

OwnerCheck(p) ==
    /\ pc[p] = "owner"
    /\ IF args[p].ct # "client" /\ ~OwnerExists(args[p].uid)
       THEN Raise(p, "UnknownOwner")
       ELSE /\ pc' = [pc EXCEPT ![p] = "select"]
            /\ UNCHANGED <<rowLock, gapLock, outcome>>
    /\ UNCHANGED <<users, id_counters, isolation, committed, authVars,
                   projects, quotes, cq, args, result, counter, stored,
                   issued, calls, edits>>

\* the locks SELECT ... FOR UPDATE takes on row k: the row's when it is
\* there, the gap's when it is not and the level locks gaps
RowLockTaken(p, k) ==
    IF Cell(k) # NoRow THEN Put(rowLock, k, p) ELSE rowLock

GapLockTaken(p, k) ==
    IF Cell(k) = NoRow /\ isolation = "REPEATABLE-READ"
    THEN gapLock \cup {[p |-> p, lo |-> GapLow(k), hi |-> GapHigh(k)]}
    ELSE gapLock

\* SELECT counter ... FOR UPDATE; fetchone()
LockingRead(p) ==
    /\ pc[p] = "select"
    /\ IF HasKey(p)
       THEN /\ Holder(KeyOf(p)) = NoProc
            /\ result' = [result EXCEPT ![p] = Cell(KeyOf(p))]
            /\ rowLock' = RowLockTaken(p, KeyOf(p))
            /\ gapLock' = GapLockTaken(p, KeyOf(p))
       ELSE /\ result' = [result EXCEPT ![p] = NoRow]
            /\ UNCHANGED <<rowLock, gapLock>>
    /\ pc' = [pc EXCEPT ![p] = "write"]
    /\ UNCHANGED <<users, id_counters, isolation, committed, authVars,
                   projects, quotes, cq, args, counter, outcome, stored,
                   issued, calls, edits>>

\* if result: counter from the cell; UPDATE id_counters SET counter = ...
Update(p) ==
    /\ pc[p] = "write"
    /\ result[p] # NoRow
    /\ counter' = [counter EXCEPT ![p] = NextCounter(result[p])]
    /\ pc' = [pc EXCEPT ![p] = "commit"]
    /\ UNCHANGED <<users, id_counters, rowLock, gapLock, isolation, committed,
                   authVars, projects, quotes, cq, args, result, outcome,
                   stored, issued, calls, edits>>

\* InsertError without the foreign key of user_id
InsertError_NoForeignKey(p) ==
    CASE ~HasKey(p) -> "DataError"
      [] Cell(KeyOf(p)) # NoRow -> "DuplicateKey"
      [] OTHER -> ""

\* why the server refuses the INSERT, "" when it accepts it
InsertError(p) ==
    CASE ~HasKey(p) -> "DataError"
      [] Cell(KeyOf(p)) # NoRow -> "DuplicateKey"
      [] KeyOf(p).uid \notin users -> "ForeignKey"
      [] OTHER -> ""

\* the INSERT has to wait: for the transaction that holds the key's row, or
\* for one that holds a lock on the gap of the key
InsertWaits(p) ==
    /\ HasKey(p)
    /\ \/ Holder(KeyOf(p)) # NoProc
       \/ \E q \in Procs \ {p} : GapHeldBy(q, p)

\* else: counter = 1; INSERT INTO id_counters ... accepted
Insert(p) ==
    /\ pc[p] = "write"
    /\ result[p] = NoRow
    /\ ~InsertWaits(p)
    /\ InsertError(p) = ""
    /\ counter' = [counter EXCEPT ![p] = 1]
    /\ rowLock' = Put(rowLock, KeyOf(p), p)
    /\ pc' = [pc EXCEPT ![p] = "commit"]
    /\ UNCHANGED <<users, id_counters, gapLock, isolation, committed,
                   authVars, projects, quotes, cq, args, result, outcome,
                   stored, issued, calls, edits>>

\* else: counter = 1; INSERT INTO id_counters ... refused by the server
InsertRefused(p) ==
    /\ pc[p] = "write"
    /\ result[p] = NoRow
    /\ ~InsertWaits(p)
    /\ InsertError(p) # ""
    /\ counter' = [counter EXCEPT ![p] = 1]
    /\ Raise(p, InsertError(p))
    /\ UNCHANGED <<users, id_counters, isolation, committed, authVars,
                   projects, quotes, cq, args, result, stored, issued, calls,
                   edits>>

\* else: counter = 1; INSERT INTO id_counters ... while another call, itself
\* at its INSERT, holds a lock on the gap and this call holds one on the gap
\* of the other: the server rolls this transaction back (deadlock victim)
InsertDeadlock(p) ==
    /\ pc[p] = "write"
    /\ result[p] = NoRow
    /\ HasKey(p)
    /\ \E q \in Procs \ {p} :
          /\ pc[q] = "write"
          /\ result[q] = NoRow
          /\ HasKey(q)
          /\ GapHeldBy(q, p)
          /\ GapHeldBy(p, q)
    /\ counter' = [counter EXCEPT ![p] = 1]
    /\ Raise(p, "Deadlock")
    /\ UNCHANGED <<users, id_counters, isolation, committed, authVars,
                   projects, quotes, cq, args, result, stored, issued, calls,
                   edits>>

\* connection.commit(): the row becomes visible, the locks are released
Commit(p) ==
    /\ pc[p] = "commit"
    /\ id_counters' = Put(id_counters, KeyOf(p), IntVal(counter[p]))
    /\ rowLock' = ReleaseLocks(p)
    /\ gapLock' = ReleaseGaps(p)
    /\ stored' = [stored EXCEPT ![p] = counter[p]]
    /\ pc' = [pc EXCEPT ![p] = "format"]
    /\ UNCHANGED <<users, isolation, committed, authVars, projects, quotes,
                   cq, args, result, counter, outcome, issued, calls, edits>>

\* Format reached without the commit
Format_BeforeCommit(p) ==
    /\ pc[p] \in {"commit", "format"}
    /\ Formattable(args[p].ct)
    /\ LET id == FormatId(args[p].ct, args[p].year, args[p].uid, counter[p])
       IN /\ outcome' = [outcome EXCEPT ![p] = Returned(id, counter[p])]
          /\ issued' = Append(issued, [req |-> args[p], n |-> counter[p], id |-> id])
    /\ pc' = [pc EXCEPT ![p] = "done"]
    /\ rowLock' = ReleaseLocks(p)
    /\ gapLock' = ReleaseGaps(p)
    /\ UNCHANGED <<users, id_counters, isolation, committed, authVars,
                   projects, quotes, cq, args, result, counter, stored, calls,
                   edits>>

\* the if/elif chain built generated_id; return generated_id
Format(p) ==
    /\ pc[p] = "format"
    /\ Formattable(args[p].ct)
    /\ LET id == FormatId(args[p].ct, args[p].year, args[p].uid, counter[p])
       IN /\ outcome' = [outcome EXCEPT ![p] = Returned(id, counter[p])]
          /\ issued' = Append(issued, [req |-> args[p], n |-> counter[p], id |-> id])
    /\ pc' = [pc EXCEPT ![p] = "done"]
    /\ UNCHANGED <<users, id_counters, rowLock, gapLock, isolation, committed,
                   authVars, projects, quotes, cq, args, result, counter,
                   stored, calls, edits>>

\* else: raise ValueError("Invalid counter type"), after the commit
FormatRaises(p) ==
    /\ pc[p] = "format"
    /\ ~Formattable(args[p].ct)
    /\ Raise(p, "InvalidCounterType")
    /\ UNCHANGED <<users, id_counters, isolation, committed, authVars,
                   projects, quotes, cq, args, result, counter, stored,
                   issued, calls, edits>>

\* StorageFailure on a connection in autocommit mode: the UPDATE or INSERT
\* that was executed stays
StorageFailure_Autocommit(p) ==
    /\ pc[p] \in {"owner", "select", "write", "commit"}
    /\ Raise(p, "StorageFailure")
    /\ id_counters' = IF pc[p] = "commit"
                      THEN Put(id_counters, KeyOf(p), IntVal(counter[p]))
                      ELSE id_counters
    /\ UNCHANGED <<users, isolation, committed, authVars, projects, quotes,
                   cq, args, result, counter, stored, issued, calls, edits>>

\* a statement or the commit raises mysql.connector.Error: rollback, raise
StorageFailure(p) ==
    /\ pc[p] \in {"owner", "select", "write", "commit"}
    /\ Raise(p, "StorageFailure")
    /\ UNCHANGED <<users, id_counters, isolation, committed, authVars,
                   projects, quotes, cq, args, result, counter, stored,
                   issued, calls, edits>>

Next ==
    \E p \in Procs :
        \/ \E req \in Requests : Connect(p, req)
        \/ \E req \in Requests : ConnectFail(p, req)
        \/ OwnerCheck(p)
        \/ LockingRead(p)
        \/ Update(p)
        \/ Insert(p)
        \/ InsertRefused(p)
        \/ InsertDeadlock(p)
        \/ Commit(p)
        \/ Format(p)
        \/ FormatRaises(p)
        \/ StorageFailure(p)

Spec == Init /\ [][Next]_vars

\* Calls made one after the other: no call starts while another one runs.
OneAtATime == Cardinality({p \in Procs : ~Free(p)}) <= 1

NextSeq == Next /\ OneAtATime'

SpecSeq == Init /\ [][NextSeq]_vars

\* client allocations under every kind of user_id, and allocations per owner
ClientRequests ==
    {Request("client", "2025", None),
     Request("client", "2025", "NO_SUCH_USER"),
     Request("client", "2024", "UB2024C1"),
     Request("quote", "2024", "UB2024C2"),
     Request("project", "2024", "NO_SUCH_USER")}

\* no other worker is inside a call
SoleCaller(p) == \A q \in Procs \ {p} : Free(q)

\* the calls of ClientRequests, made one after the other
NextClient ==
    \E p \in Procs :
        \/ \E req \in ClientRequests : SoleCaller(p) /\ Connect(p, req)
        \/ \E req \in ClientRequests : SoleCaller(p) /\ ConnectFail(p, req)
        \/ OwnerCheck(p)
        \/ LockingRead(p)
        \/ Update(p)
        \/ Insert(p)
        \/ Commit(p)
        \/ Format(p)
        \/ StorageFailure(p)

SpecClient == Init /\ [][NextClient]_vars

----------------------------------------------------------------------------
(* Legacy and corrupt cells *)

\* Cells a counter column can hold that generate_custom_id did not write:
\* NULL (the column is nullable), and what a table that existed before
\* CREATE TABLE IF NOT EXISTS may keep in a differently typed column.
LegacyCells ==
    {NullVal, DateVal, StrVal(<<"a", "b">>), StrVal(<<"1", "2">>), FloatVal(25)}

\* An UPDATE of one existing counter cell made from outside the program; it
\* waits, as any UPDATE, for the transaction that holds the row.
ExternalEdit(k, cell) ==
    /\ edits < MaxEdits
    /\ k \in DOMAIN id_counters
    /\ Holder(k) = NoProc
    /\ id_counters' = Put(id_counters, k, cell)
    /\ edits' = edits + 1
    /\ UNCHANGED <<users, rowLock, gapLock, isolation, committed, authVars,
                   projects, quotes, cq, pc, args, result, counter, outcome,
                   stored, issued, calls>>

\* the calls made against legacy cells
LegacyRequests ==
    {Request("client", "2025", None),
     Request("project", "2024", "UB2024C1")}

NextLegacy ==
    \/ \E p \in Procs :
          \/ \E req \in LegacyRequests : Connect(p, req)
          \/ OwnerCheck(p)
          \/ LockingRead(p)
          \/ Update(p)
          \/ Insert(p)
          \/ InsertRefused(p)
          \/ InsertDeadlock(p)
          \/ Commit(p)
          \/ Format(p)
    \/ \E req \in LegacyRequests, cell \in LegacyCells :
          ExternalEdit(RowKey(req.ct, req.year, req.uid), cell)

SpecLegacy == Init /\ [][NextLegacy]_vars

----------------------------------------------------------------------------
(* AdminManager.create_quote and AdminManager.delete_user *)

\* create_quote up to its call of generate_custom_id: the project is looked
\* up and the year is read from the clock
CreateQuoteBegin(p, project_id, total_price, current_year) ==
    /\ Free(p)
    /\ cq' = [cq EXCEPT ![p] =
                 IF project_id \in DOMAIN projects
                 THEN [stage |-> "allocate", project |-> project_id,
                       uid |-> projects[project_id].user_id,
                       year |-> current_year, price |-> total_price,
                       ok |-> FALSE, alloc |-> "none"]
                 ELSE [NoQuoteCall EXCEPT !.stage = "returned"]]
    /\ UNCHANGED <<users, id_counters, rowLock, gapLock, isolation, committed,
                   authVars, projects, quotes, pc, args, result, counter,
                   outcome, stored, issued, calls, edits>>

\* create_quote has returned r after its call of generate_custom_id
QuoteReturned(p, r) ==
    [cq EXCEPT ![p] = [NoQuoteCall EXCEPT
                          !.stage = "returned", !.ok = r,
                          !.alloc = IF outcome[p].kind = "ok"
                                    THEN "ok" ELSE "raised"]]

\* the quote row create_quote inserts
QuoteRow(p) ==
    [quote_id |-> outcome[p].id, project_id |-> cq[p].project,
     user_id |-> cq[p].uid, total_price |-> cq[p].price]

\* the server accepts the INSERT INTO quotes: new primary key, and the
\* project and the user it references exist
QuoteInsertable(p) ==
    /\ \A q \in quotes : q.quote_id # outcome[p].id
    /\ cq[p].project \in DOMAIN projects
    /\ cq[p].uid \in users

\* connection.rollback() on the admin connection: every statement since
\* its last commit is undone, whichever call made it
RollbackTables ==
    /\ projects' = committed.projects
    /\ quotes' = committed.quotes
    /\ admins' = committed.admins
    /\ admin_otp_codes' = committed.admin_otp_codes
    /\ admin_sessions' = committed.admin_sessions

\* CreateQuoteFailed with the quote row inserted under the empty identifier
CreateQuoteFailed_InsertsAnyway(p) ==
    /\ cq[p].stage = "allocating"
    /\ pc[p] = "done"
    /\ outcome[p].kind # "ok"
    /\ cq' = QuoteReturned(p, FALSE)
    /\ quotes' = quotes \cup {QuoteRow(p)}
    /\ committed' = [committed EXCEPT !.quotes = quotes']
    /\ UNCHANGED <<users, id_counters, rowLock, gapLock, isolation, authVars,
                   projects, pc, args, result, counter, outcome, stored,
                   issued, calls, edits>>

\* generate_custom_id raised: except: rollback; return False
CreateQuoteFailed(p) ==
    /\ cq[p].stage = "allocating"
    /\ pc[p] = "done"
    /\ outcome[p].kind # "ok"
    /\ cq' = QuoteReturned(p, FALSE)
    /\ RollbackTables
    /\ UNCHANGED <<users, id_counters, rowLock, gapLock, isolation, committed,
                   thread, audit, pc, args, result, counter, outcome, stored,
                   issued, calls, edits>>

\* INSERT INTO quotes
CreateQuoteInsert(p) ==
    /\ cq[p].stage = "allocating"
    /\ pc[p] = "done"
    /\ outcome[p].kind = "ok"
    /\ QuoteInsertable(p)
    /\ quotes' = quotes \cup {QuoteRow(p)}
    /\ cq' = [cq EXCEPT ![p].stage = "inserted"]
    /\ UNCHANGED <<users, id_counters, rowLock, gapLock, isolation, committed,
                   authVars, projects, pc, args, result, counter, outcome,
                   stored, issued, calls, edits>>

\* UPDATE projects SET status = 'quoted', amount = total_price WHERE
\* project_id = ...: the row of the project, when the table has it
CreateQuoteUpdate(p) ==
    /\ cq[p].stage = "inserted"
    /\ projects' = IF cq[p].project \in DOMAIN projects
                   THEN [projects EXCEPT ![cq[p].project] =
                            [@ EXCEPT !.status = "quoted",
                                      !.amount = cq[p].price]]
                   ELSE projects
    /\ cq' = [cq EXCEPT ![p].stage = "updated"]
    /\ UNCHANGED <<users, id_counters, rowLock, gapLock, isolation, committed,
                   authVars, quotes, pc, args, result, counter, outcome,
                   stored, issued, calls, edits>>

\* connection.commit(), then the statements that send the e-mail: the
\* result is False when they raise
CreateQuoteCommit(p, mailed) ==
    /\ cq[p].stage = "updated"
    /\ committed' = Snapshot
    /\ cq' = QuoteReturned(p, mailed)
    /\ UNCHANGED <<users, id_counters, rowLock, gapLock, isolation, authVars,
                   projects, quotes, pc, args, result, counter, outcome,
                   stored, issued, calls, edits>>

\* the INSERT, the UPDATE or the commit raises: except: rollback; return
\* False
CreateQuoteInsertRefused(p) ==
    /\ \/ cq[p].stage = "allocating" /\ pc[p] = "done" /\ outcome[p].kind = "ok"
       \/ cq[p].stage \in {"inserted", "updated"}
    /\ cq' = QuoteReturned(p, FALSE)
    /\ RollbackTables
    /\ UNCHANGED <<users, id_counters, rowLock, gapLock, isolation, committed,
                   thread, audit, pc, args, result, counter, outcome, stored,
                   issued, calls, edits>>

\* f without the entries whose value is owned by user_id
WithoutOwner(f, user_id) ==
    [k \in {x \in DOMAIN f : f[x].user_id # user_id} |-> f[k]]

\* DeleteUser with a foreign key of id_counters that does not cascade: the
\* DELETE is refused while the user has counter rows
DeleteUser_Restrict(user_id) ==
    /\ user_id \in users
    /\ \A k \in IndexRecords : k.uid # user_id
    /\ users' = users \ {user_id}
    /\ projects' = WithoutOwner(projects, user_id)
    /\ quotes' = {q \in quotes : q.user_id # user_id}
    /\ committed' = [Snapshot EXCEPT !.projects = projects',
                                     !.quotes = quotes']
    /\ UNCHANGED <<id_counters, rowLock, gapLock, isolation, authVars, cq,
                   pc, args, result, counter, outcome, stored, issued, calls,
                   edits>>

\* DELETE FROM users WHERE user_id = %s; commit.  The rows of id_counters,
\* projects and quotes that reference the user go with it (ON DELETE
\* CASCADE); the DELETE waits for the transactions that hold a counter row
\* of the user, inserted or locked.
DeleteUserRows(user_id) ==
    /\ user_id \in users
    /\ \A k \in DOMAIN rowLock : k.uid # user_id
    /\ users' = users \ {user_id}
    /\ id_counters' = [k \in {x \in DOMAIN id_counters : x.uid # user_id} |->
                          id_counters[k]]
    /\ projects' = WithoutOwner(projects, user_id)
    /\ quotes' = {q \in quotes : q.user_id # user_id}
    /\ committed' = [Snapshot EXCEPT !.projects = projects',
                                     !.quotes = quotes']

\* AdminManager.delete_user
DeleteUser(user_id) ==
    /\ DeleteUserRows(user_id)
    /\ UNCHANGED <<rowLock, gapLock, isolation, authVars, cq, pc, args,
                   result, counter, outcome, stored, issued, calls, edits>>

\* the calls other callers make while the back office is in use
AdminRequests ==
    {Request("client", "2025", None),
     Request("project", "2024", "UB2024C1")}

\* line 666 of create_quote: the call of generate_custom_id
CreateQuoteAllocate(p) ==
    /\ cq[p].stage = "allocate"
    /\ \/ Connect(p, QuoteRequest(p))
       \/ ConnectFail(p, QuoteRequest(p))

NextAdmin ==
    \/ \E p \in Procs :
          \/ \E req \in AdminRequests : Connect(p, req)
          \/ OwnerCheck(p)
          \/ LockingRead(p)
          \/ Update(p)
          \/ Insert(p)
          \/ InsertRefused(p)
          \/ InsertDeadlock(p)
          \/ Commit(p)
          \/ Format(p)
          \/ StorageFailure(p)
    \/ \E user_id \in users : DeleteUser(user_id)

SpecAdmin == Init /\ [][NextAdmin]_vars

\* create_quote on every worker, the owner of the project being deleted
\* meanwhile
NextQuote ==
    \/ \E p \in Procs :
          \/ \E project_id \in ProjectIds, total_price \in Prices,
                current_year \in Years :
                CreateQuoteBegin(p, project_id, total_price, current_year)
          \/ CreateQuoteAllocate(p)
          \/ OwnerCheck(p)
          \/ LockingRead(p)
          \/ Update(p)
          \/ Insert(p)
          \/ InsertRefused(p)
          \/ InsertDeadlock(p)
          \/ Commit(p)
          \/ Format(p)
          \/ CreateQuoteFailed(p)
          \/ CreateQuoteInsert(p)
          \/ CreateQuoteUpdate(p)
          \/ \E mailed \in BOOLEAN : CreateQuoteCommit(p, mailed)
          \/ CreateQuoteInsertRefused(p)
    \/ \E project_id \in DOMAIN projects :
          DeleteUser(projects[project_id].user_id)

SpecQuote == Init /\ [][NextQuote]_vars

----------------------------------------------------------------------------
(* Admin accounts: register_admin, verify_admin_otp, admin_login,          *)
(* verify_admin_session, admin_logout, remove_admin and the /admin/api     *)
(* endpoints.  Every call runs on the one connection of the module-level   *)
(* admin_manager, in the thread of its request: a statement sees what the  *)
(* statements before it did, whichever call made them; commit and rollback *)
(* end the transaction of all of them.  The calls are split at their       *)
(* statements.                                                             *)

\* the types register_admin lets through, and the members of the column's
\* ENUM
AdminTypes == {"superadmin", "techadmin", "support"}

EnumAdminTypes == {"superadmin", "techadmin"}

Emails == {"root@ub.in", "tech@ub.in"}

UpperCase ==
    {"A", "B", "C", "D", "E", "F", "G", "H", "I", "J", "K", "L", "M", "N",
     "O", "P", "Q", "R", "S", "T", "U", "V", "W", "X", "Y", "Z"}

LowerCase ==
    {"a", "b", "c", "d", "e", "f", "g", "h", "i", "j", "k", "l", "m", "n",
     "o", "p", "q", "r", "s", "t", "u", "v", "w", "x", "y", "z"}

Specials ==
    {"!", "@", "#", "$", "%", "^", "&", "*", "(", ")", ",", ".", "?", "\"",
     ":", "{", "}", "|", "<", ">"}

GoodPassword == <<"P", "a", "s", "s", "w", "0", "r", "d", "!">>

OtherPassword == <<"0", "t", "h", "e", "r", "P", "w", "#">>

WeakPassword == <<"p", "a", "s", "s", "w", "o", "r", "d">>

GoodMobile ==
    <<"+", "9", "1", "9", "8", "7", "6", "5", "4", "3", "2", "1", "0">>

BadMobile == <<"9", "8", "7", "6", "5", "4", "3", "2", "1", "0">>

\* the code generate_otp draws, and a guess
OtpCodes == {"123456"}

OtpGuesses == {"123456", "000000"}

\* validate_password
ValidatePassword(password) ==
    /\ Len(password) >= 8
    /\ \E i \in 1..Len(password) : password[i] \in UpperCase
    /\ \E i \in 1..Len(password) : password[i] \in LowerCase
    /\ \E i \in 1..Len(password) : password[i] \in Digits
    /\ \E i \in 1..Len(password) : password[i] \in Specials

\* validate_mobile: '+', a country code of one to four digits, ten digits
ValidateMobile(mobile) ==
    /\ Len(mobile) >= 12
    /\ Len(mobile) <= 15
    /\ mobile[1] = "+"
    /\ \A i \in 2..Len(mobile) : mobile[i] \in Digits

\* bcrypt.hashpw and bcrypt.checkpw: the hash is checked against the
\* password it was made of
HashPw(password) == [bcrypt |-> password]

CheckPw(password, hashed) == hashed = HashPw(password)

\* check_admin_limit
CheckAdminLimit ==
    Cardinality({x \in DOMAIN admins : admins[x].is_active}) < 3

\* verify_admin_session: the session row joined with the row of its admin,
\* not expired, the admin active
VerifyAdminSession(session_id) ==
    /\ session_id \in DOMAIN admin_sessions
    /\ ~admin_sessions[session_id].expired
    /\ admin_sessions[session_id].email \in DOMAIN admins
    /\ admins[admin_sessions[session_id].email].is_active

\* a request enters its handler on worker p
Enter(p) ==
    /\ Free(p)
    /\ audit.requests < MaxRequests

\* the position of a running call, and the record of a call that returned
At(p, op, stage) == thread[p].op = op /\ thread[p].stage = stage

Returned_(p, answer) ==
    [thread EXCEPT ![p] = [NoHandler EXCEPT !.op = thread[p].op,
                                            !.stage = "returned",
                                            !.answer = answer]]

Counted == [audit EXCEPT !.requests = @ + 1]

\* connection.commit() on the admin connection
CommitTables == committed' = Snapshot

\* the tables of the accounts stay as they are
SameAccounts == UNCHANGED <<admins, admin_otp_codes, admin_sessions>>

----------------------------------------------------------------------------
(* register_admin *)

\* the checks before the first statement of the try block: type, limit,
\* password, mobile
RegisterAdminBegin(p, admin_type, mobile, email, password) ==
    /\ Enter(p)
    /\ thread' = [thread EXCEPT ![p] =
          IF /\ admin_type \in AdminTypes
             /\ CheckAdminLimit
             /\ ValidatePassword(password)
             /\ ValidateMobile(mobile)
          THEN [NoHandler EXCEPT
                   !.op = "register_admin", !.admin_type = admin_type,
                   !.email = email, !.password = password,
                   !.stage = "select"]
          ELSE [NoHandler EXCEPT !.op = "register_admin",
                                 !.stage = "returned", !.answer = "False"]]
    /\ audit' = Counted
    /\ UNCHANGED <<allocatorVars, committed, admins, admin_otp_codes,
                   admin_sessions>>

\* SELECT ... WHERE admin_type = %s; SELECT ... WHERE email = %s
RegisterAdminSelect(p) ==
    /\ At(p, "register_admin", "select")
    /\ thread' = IF \/ \E x \in DOMAIN admins :
                         admins[x].admin_type = thread[p].admin_type
                    \/ thread[p].email \in DOMAIN admins
                 THEN Returned_(p, "False")
                 ELSE [thread EXCEPT ![p].stage = "insert"]
    /\ UNCHANGED <<allocatorVars, committed, admins, admin_otp_codes,
                   admin_sessions, audit>>

\* AdminInsertable without the UNIQUE key on admin_type
AdminInsertable_NoUniqueType(admin_type, email) ==
    /\ admin_type \in EnumAdminTypes
    /\ email \notin DOMAIN admins

\* the server accepts the INSERT INTO admins: the type is a member of the
\* ENUM and neither the type nor the email has a row (UNIQUE keys)
AdminInsertable(admin_type, email) ==
    /\ admin_type \in EnumAdminTypes
    /\ \A x \in DOMAIN admins : admins[x].admin_type # admin_type
    /\ email \notin DOMAIN admins

\* INSERT INTO admins: the row, not verified and active by default
RegisterAdminInsert(p) ==
    /\ At(p, "register_admin", "insert")
    /\ AdminInsertable(thread[p].admin_type, thread[p].email)
    /\ admins' = admins @@
          (thread[p].email :>
              [admin_type |-> thread[p].admin_type,
               password |-> HashPw(thread[p].password),
               is_verified |-> FALSE, is_active |-> TRUE])
    /\ thread' = [thread EXCEPT ![p].stage = "commit"]
    /\ UNCHANGED <<allocatorVars, committed, admin_otp_codes, admin_sessions,
                   audit>>

\* the INSERT raises: except: rollback; return False
RegisterAdminInsertRefused(p) ==
    /\ At(p, "register_admin", "insert")
    /\ ~AdminInsertable(thread[p].admin_type, thread[p].email)
    /\ RollbackTables
    /\ thread' = Returned_(p, "False")
    /\ UNCHANGED <<users, id_counters, rowLock, gapLock, isolation, cq, pc,
                   args, result, counter, outcome, stored, issued, calls,
                   edits, committed, audit>>

\* the row a call of store_admin_otp inserts
OtpRow(email, otp) ==
    [email |-> email, otp_code |-> otp, is_used |-> FALSE, expired |-> FALSE]

\* connection.commit(); store_admin_otp(email, generate_otp()): INSERT
\* INTO admin_otp_codes, commit; return True
RegisterAdminCommit(p, otp) ==
    /\ At(p, "register_admin", "commit")
    /\ admin_otp_codes' =
          admin_otp_codes @@ ((audit.otps + 1) :> OtpRow(thread[p].email, otp))
    /\ audit' = [audit EXCEPT !.otps = @ + 1]
    /\ committed' = [Snapshot EXCEPT !.admin_otp_codes = admin_otp_codes']
    /\ thread' = Returned_(p, "True")
    /\ UNCHANGED <<allocatorVars, admins, admin_sessions>>

\* /admin/resend-otp: store_admin_otp(email, generate_otp())
ResendOtp(p, email, otp) ==
    /\ Enter(p)
    /\ admin_otp_codes' =
          admin_otp_codes @@ ((audit.otps + 1) :> OtpRow(email, otp))
    /\ audit' = [Counted EXCEPT !.otps = @ + 1]
    /\ committed' = [Snapshot EXCEPT !.admin_otp_codes = admin_otp_codes']
    /\ thread' = [thread EXCEPT ![p] =
          [NoHandler EXCEPT !.op = "store_admin_otp",
                            !.stage = "returned", !.answer = "True"]]
    /\ UNCHANGED <<allocatorVars, admins, admin_sessions>>

----------------------------------------------------------------------------
(* verify_admin_otp *)

\* the rows the SELECT of verify_admin_otp finds
MatchingOtps(email, otp) ==
    {i \in DOMAIN admin_otp_codes :
        /\ admin_otp_codes[i].email = email
        /\ admin_otp_codes[i].otp_code = otp
        /\ ~admin_otp_codes[i].expired
        /\ ~admin_otp_codes[i].is_used}

\* SELECT otp_id ... WHERE email, otp_code, expires_at > NOW(), is_used =
\* FALSE; fetchone: no row, return False
VerifyOtpSelect(p, email, otp) ==
    /\ Enter(p)
    /\ \/ /\ MatchingOtps(email, otp) = {}
          /\ thread' = [thread EXCEPT ![p] =
                [NoHandler EXCEPT !.op = "verify_admin_otp",
                                  !.stage = "returned", !.answer = "False"]]
       \/ \E i \in MatchingOtps(email, otp) :
             thread' = [thread EXCEPT ![p] =
                [NoHandler EXCEPT !.op = "verify_admin_otp", !.email = email,
                                  !.otp = otp, !.otp_id = i,
                                  !.stage = "update"]]
    /\ audit' = Counted
    /\ UNCHANGED <<allocatorVars, committed, admins, admin_otp_codes,
                   admin_sessions>>

\* UPDATE admin_otp_codes SET is_used = TRUE WHERE otp_id = %s; UPDATE
\* admins SET is_verified = TRUE WHERE email = %s
VerifyOtpUpdate(p) ==
    /\ At(p, "verify_admin_otp", "update")
    /\ admin_otp_codes' =
          IF thread[p].otp_id \in DOMAIN admin_otp_codes
          THEN [admin_otp_codes EXCEPT ![thread[p].otp_id].is_used = TRUE]
          ELSE admin_otp_codes
    /\ admins' = IF thread[p].email \in DOMAIN admins
                 THEN [admins EXCEPT ![thread[p].email].is_verified = TRUE]
                 ELSE admins
    /\ thread' = [thread EXCEPT ![p].stage = "commit"]
    /\ UNCHANGED <<allocatorVars, committed, admin_sessions, audit>>

\* connection.commit(); return True
VerifyOtpCommit(p) ==
    /\ At(p, "verify_admin_otp", "commit")
    /\ CommitTables
    /\ thread' = Returned_(p, "True")
    /\ audit' = [audit EXCEPT
          !.verified = @ \cup {thread[p].email},
          !.uses = IF thread[p].otp_id \in DOMAIN @
                   THEN [@ EXCEPT ![thread[p].otp_id] = @ + 1]
                   ELSE @ @@ (thread[p].otp_id :> 1)]
    /\ UNCHANGED <<allocatorVars, admins, admin_otp_codes, admin_sessions>>

----------------------------------------------------------------------------
(* admin_login, admin_logout, remove_admin *)

\* AdminLoginChecks without the test of is_verified
AdminLoginChecks_Unverified(email, password) ==
    /\ email \in DOMAIN admins
    /\ admins[email].is_active
    /\ CheckPw(password, admins[email].password)

\* the row of the email exists, is active, is verified, and the password
\* matches its hash
AdminLoginChecks(email, password) ==
    /\ email \in DOMAIN admins
    /\ admins[email].is_active
    /\ admins[email].is_verified
    /\ CheckPw(password, admins[email].password)

\* SELECT ... FROM admins WHERE email = %s and the checks on the row
AdminLoginSelect(p, email, password) ==
    /\ Enter(p)
    /\ thread' = [thread EXCEPT ![p] =
          IF AdminLoginChecks(email, password)
          THEN [NoHandler EXCEPT !.op = "admin_login", !.email = email,
                                 !.password = password, !.stage = "insert"]
          ELSE [NoHandler EXCEPT !.op = "admin_login", !.stage = "returned",
                                 !.answer = "False"]]
    /\ audit' = Counted
    /\ UNCHANGED <<allocatorVars, committed, admins, admin_otp_codes,
                   admin_sessions>>

\* UPDATE admins SET last_login; session_id = secrets.token_urlsafe(32);
\* INSERT INTO admin_sessions.  The INSERT raises when the row of the admin
\* is gone (foreign key): except: return False
AdminLoginInsert(p) ==
    /\ At(p, "admin_login", "insert")
    /\ IF thread[p].email \in DOMAIN admins
       THEN /\ admin_sessions' = admin_sessions @@
                  ((audit.tokens + 1) :>
                      [email |-> thread[p].email, expired |-> FALSE])
            /\ thread' = [thread EXCEPT ![p].stage = "commit",
                                        ![p].session_id = audit.tokens + 1]
            /\ audit' = [audit EXCEPT !.tokens = @ + 1]
       ELSE /\ thread' = Returned_(p, "False")
            /\ UNCHANGED <<admin_sessions, audit>>
    /\ UNCHANGED <<allocatorVars, committed, admins, admin_otp_codes>>

\* connection.commit(); return True with the session_id
AdminLoginCommit(p) ==
    /\ At(p, "admin_login", "commit")
    /\ CommitTables
    /\ thread' = Returned_(p, "True")
    /\ audit' = [audit EXCEPT !.created = @ \cup {thread[p].session_id}]
    /\ UNCHANGED <<allocatorVars, admins, admin_otp_codes, admin_sessions>>

\* /admin/logout with the cookie of a login: DELETE FROM admin_sessions
\* WHERE session_id = %s
AdminLogoutDelete(p, session_id) ==
    /\ Enter(p)
    /\ session_id \in audit.created
    /\ admin_sessions' =
          [i \in DOMAIN admin_sessions \ {session_id} |-> admin_sessions[i]]
    /\ thread' = [thread EXCEPT ![p] =
          [NoHandler EXCEPT !.op = "admin_logout", !.stage = "commit",
                            !.session_id = session_id]]
    /\ audit' = Counted
    /\ UNCHANGED <<allocatorVars, committed, admins, admin_otp_codes>>

\* connection.commit(); return True
AdminLogoutCommit(p) ==
    /\ At(p, "admin_logout", "commit")
    /\ CommitTables
    /\ thread' = Returned_(p, "True")
    /\ audit' = [audit EXCEPT !.logged_out = @ \cup {thread[p].session_id}]
    /\ UNCHANGED <<allocatorVars, admins, admin_otp_codes, admin_sessions>>

\* remove_admin: SELECT admin_type: no row, or the superadmin: return
\* False; else UPDATE admins SET is_active = FALSE
RemoveAdminUpdate(p, email) ==
    /\ Enter(p)
    /\ IF email \in DOMAIN admins /\ admins[email].admin_type # "superadmin"
       THEN /\ admins' = [admins EXCEPT ![email].is_active = FALSE]
            /\ thread' = [thread EXCEPT ![p] =
                  [NoHandler EXCEPT !.op = "remove_admin", !.email = email,
                                    !.stage = "commit"]]
       ELSE /\ admins' = admins
            /\ thread' = [thread EXCEPT ![p] =
                  [NoHandler EXCEPT !.op = "remove_admin",
                                    !.stage = "returned", !.answer = "False"]]
    /\ audit' = Counted
    /\ UNCHANGED <<allocatorVars, committed, admin_otp_codes, admin_sessions>>

\* connection.commit(); return True
RemoveAdminCommit(p) ==
    /\ At(p, "remove_admin", "commit")
    /\ CommitTables
    /\ thread' = Returned_(p, "True")
    /\ audit' = [audit EXCEPT !.removed = @ \cup {thread[p].email}]
    /\ UNCHANGED <<allocatorVars, admins, admin_otp_codes, admin_sessions>>

\* time passes: a session is past its expires_at
SessionExpires(session_id) ==
    /\ session_id \in DOMAIN admin_sessions
    /\ ~admin_sessions[session_id].expired
    /\ admin_sessions' = [admin_sessions EXCEPT ![session_id].expired = TRUE]
    /\ committed' = [committed EXCEPT !.admin_sessions =
          [i \in DOMAIN @ |->
              IF i = session_id THEN [@[i] EXCEPT !.expired = TRUE] ELSE @[i]]]
    /\ UNCHANGED <<allocatorVars, admins, admin_otp_codes, thread, audit>>

\* time passes: an OTP is past its expires_at
OtpExpires(otp_id) ==
    /\ otp_id \in DOMAIN admin_otp_codes
    /\ ~admin_otp_codes[otp_id].expired
    /\ admin_otp_codes' = [admin_otp_codes EXCEPT ![otp_id].expired = TRUE]
    /\ committed' = [committed EXCEPT !.admin_otp_codes =
          [i \in DOMAIN @ |->
              IF i = otp_id THEN [@[i] EXCEPT !.expired = TRUE] ELSE @[i]]]
    /\ UNCHANGED <<allocatorVars, admins, admin_sessions, thread, audit>>

----------------------------------------------------------------------------
(* the endpoints under /admin/api/ *)

\* the endpoints that test the session before anything else
GatedEndpoints ==
    {"stats", "pending-quotes", "active-orders", "orders", "users",
     "messages", "create-quote", "update-order-status", "delete-user"}

Endpoints == GatedEndpoints \cup {"project-details"}

\* the user /admin/api/delete-user is asked to delete
DeletedUser == "UB2024C1"

\* the endpoint goes on to its data: session.get('admin_session_id') is
\* set and verify_admin_session accepts it, where the endpoint asks
Authorised(endpoint, session_id) ==
    \/ endpoint \notin GatedEndpoints
    \/ session_id # 0 /\ VerifyAdminSession(session_id)

\* one request to an endpoint, with the admin_session_id of its cookie (0:
\* none): 401 Unauthorized, or the data; delete-user deletes the user
AdminApi(p, endpoint, session_id) ==
    /\ Enter(p)
    /\ thread' = [thread EXCEPT ![p] =
          [NoHandler EXCEPT
              !.op = endpoint, !.stage = "returned",
              !.session_id = session_id,
              !.accepted = session_id # 0 /\ VerifyAdminSession(session_id),
              !.answer = IF Authorised(endpoint, session_id)
                         THEN "data" ELSE "Unauthorized"]]
    /\ audit' = Counted
    /\ IF endpoint = "delete-user" /\ Authorised(endpoint, session_id)
          /\ DeletedUser \in users
       THEN /\ DeleteUserRows(DeletedUser)
            /\ UNCHANGED <<rowLock, gapLock, isolation, cq, pc, args, result,
                           counter, outcome, stored, issued, calls, edits>>
       ELSE UNCHANGED <<allocatorVars, committed>>
    /\ SameAccounts

----------------------------------------------------------------------------
(* the account handlers together *)

\* the endpoints requested: one that reads, one that writes, and the one
\* without the test
RequestedEndpoints == {"stats", "delete-user", "project-details"}

NextAuth ==
    \/ \E p \in Procs :
          \/ \E admin_type \in AdminTypes, email \in Emails :
                RegisterAdminBegin(p, admin_type, GoodMobile, email,
                                   GoodPassword)
          \/ RegisterAdminSelect(p)
          \/ RegisterAdminInsert(p)
          \/ RegisterAdminInsertRefused(p)
          \/ \E otp \in OtpCodes : RegisterAdminCommit(p, otp)
          \/ \E email \in Emails, otp \in OtpGuesses :
                VerifyOtpSelect(p, email, otp)
          \/ VerifyOtpUpdate(p)
          \/ VerifyOtpCommit(p)
          \/ \E email \in Emails, password \in {GoodPassword, OtherPassword} :
                AdminLoginSelect(p, email, password)
          \/ AdminLoginInsert(p)
          \/ AdminLoginCommit(p)
          \/ \E session_id \in audit.created :
                AdminLogoutDelete(p, session_id)
          \/ AdminLogoutCommit(p)
          \/ \E email \in Emails : RemoveAdminUpdate(p, email)
          \/ RemoveAdminCommit(p)
          \/ \E endpoint \in RequestedEndpoints,
                session_id \in 0..audit.tokens :
                AdminApi(p, endpoint, session_id)
    \/ \E session_id \in DOMAIN admin_sessions : SessionExpires(session_id)

\* the account handlers run no allocation: one isolation level
InitAuth == Init /\ isolation = "REPEATABLE-READ"

SpecAuth == InitAuth /\ [][NextAuth]_vars

\* one registration, and the OTPs: stored, stored again, tried, expiring
NextOtp ==
    \/ \E p \in Procs :
          \/ RegisterAdminBegin(p, "superadmin", GoodMobile, "root@ub.in",
                                GoodPassword)
          \/ RegisterAdminSelect(p)
          \/ RegisterAdminInsert(p)
          \/ RegisterAdminInsertRefused(p)
          \/ \E otp \in OtpCodes : RegisterAdminCommit(p, otp)
          \/ \E email \in Emails, otp \in OtpCodes : ResendOtp(p, email, otp)
          \/ \E email \in Emails, otp \in OtpGuesses :
                VerifyOtpSelect(p, email, otp)
          \/ VerifyOtpUpdate(p)
          \/ VerifyOtpCommit(p)
    \/ \E otp_id \in DOMAIN admin_otp_codes : OtpExpires(otp_id)

SpecOtp == InitAuth /\ [][NextOtp]_vars

\* registrations and removals only, with more emails than admins allowed
RegisterEmails == Emails \cup {"ops@ub.in", "help@ub.in"}

\* the forms submitted: every type with every email, and one form each
\* with an unknown type, a malformed mobile number and a weak password
RegisterForms ==
    {<<admin_type, GoodMobile, email, GoodPassword>> :
        admin_type \in AdminTypes, email \in RegisterEmails}
    \cup {<<"manager", GoodMobile, "root@ub.in", GoodPassword>>,
          <<"techadmin", BadMobile, "root@ub.in", GoodPassword>>,
          <<"techadmin", GoodMobile, "root@ub.in", WeakPassword>>}

NextRegister ==
    \E p \in Procs :
        \/ \E form \in RegisterForms :
              RegisterAdminBegin(p, form[1], form[2], form[3], form[4])
        \/ RegisterAdminSelect(p)
        \/ RegisterAdminInsert(p)
        \/ RegisterAdminInsertRefused(p)
        \/ \E otp \in OtpCodes : RegisterAdminCommit(p, otp)
        \/ \E email \in RegisterEmails : RemoveAdminUpdate(p, email)
        \/ RemoveAdminCommit(p)

SpecRegister == InitAuth /\ [][NextRegister]_vars

----------------------------------------------------------------------------
(* Vocabulary of the properties *)

\* the five documented kinds of counter
FiveKinds == {"client", "project", "quote", "order", "file"}

\* failures forced on the call by the store, whatever its arguments
ForcedFailures == {"ConnectionFailed", "StorageFailure"}

\* the counter key (counter_type, year, scope) a request names
ScopeKeyOf(req) ==
    [ct |-> req.ct, year |-> req.year,
     uid |-> IF req.ct = "client" THEN "GLOBAL" ELSE req.uid]

ScopeKey(p) == ScopeKeyOf(args[p])

\* the identifier template of each kind, applied to n
TemplateLetter(ct) ==
    CASE ct = "client" -> "C" [] ct = "project" -> "P" [] ct = "quote" -> "Q"
      [] ct = "order" -> "OR" [] ct = "file" -> "F"

Template(req, n) ==
    (IF req.ct = "client" THEN "UB" \o req.year ELSE req.uid)
        \o TemplateLetter(req.ct) \o ToString(n)

\* worker p has committed, and is past its commit
CommitStep(p) == pc[p] = "commit" /\ pc'[p] = "format"

----------------------------------------------------------------------------
(* C1 *)

\* C1: N concurrent calls against one key, a key with no counter row yet
\* included, all succeed and issue exactly the numbers 1..N.  Stated for the
\* keys the table can hold, with a registered owner, when every worker has
\* made exactly one call, all on the same key, and the store forced no
\* failure on any of them.
C1_ConcurrentCallsIssueOneToN ==
    \A k \in Keys :
        ( /\ k \notin DOMAIN InitialCounters
          /\ k.uid \in users
          /\ calls = Cardinality(Procs)
          /\ \A p \in Procs : /\ pc[p] = "done"
                              /\ ScopeKey(p) = k
                              /\ outcome[p].kind \notin ForcedFailures )
        => /\ \A p \in Procs : outcome[p].kind = "ok"
           /\ {outcome[p].n : p \in Procs} = 1..Cardinality(Procs)

----------------------------------------------------------------------------
(* C2 *)

\* C2: no two successful calls return the same identifier string, whatever
\* their counter types, years and owners.
C2_IdentifiersUnique ==
    \A i, j \in 1..Len(issued) : i # j => issued[i].id # issued[j].id

----------------------------------------------------------------------------
(* C3 *)

\* the row fetched under the lock is the row of the call's own key
C3_ReadsOwnKey ==
    \A p \in Procs :
        (pc[p] \in {"write", "commit"} /\ args[p].ct \in FiveKinds /\ result[p] # NoRow)
        => result[p] = Cell(ScopeKey(p))

\* the number handed out is computed from that row alone
C3_NumberFromOwnKey ==
    \A p \in Procs :
        outcome[p].kind = "ok"
        => outcome[p].n = IF result[p] = NoRow THEN 1 ELSE result[p].n + 1

\* a step of a call of one of the five kinds changes no row but its own key's
C3_Frame ==
    /\ (\A p \in Procs : ~CommitStep(p)) => id_counters' = id_counters
    /\ \A p \in Procs :
          (CommitStep(p) /\ args[p].ct \in FiveKinds)
          => \A k \in Keys : k # ScopeKey(p) => Cell(k)' = Cell(k)

\* C3: a call for key (counter_type, year, scope) leaves the stored value of
\* every other key unchanged, and the number it returns is computed from the
\* row of its own key only.  (Calls whose counter_type is none of the five
\* kinds are the subject of C7 and C8.)
C3_KeysIsolated ==
    /\ [][C3_Frame]_vars
    /\ [](C3_ReadsOwnKey /\ C3_NumberFromOwnKey)

\* A call has returned number 1 for (project, 2025, UB2024C1) while the
\* counter of (project, 2024, UB2024C1) stands at 2.
C3_Witness ==
    \E p \in Procs :
        /\ outcome[p].kind = "ok"
        /\ args[p] = Request("project", "2025", "UB2024C1")
        /\ outcome[p].n = 1
        /\ Cell(ScopeKeyOf(Request("project", "2024", "UB2024C1"))) = IntVal(2)

----------------------------------------------------------------------------
(* C4 *)

\* the identifiers handed out for the client counter of year y, in order
ClientIds(y) ==
    LET IsClient(r) == r.req.ct = "client" /\ r.req.year = y
    IN SelectSeq(issued, IsClient)

\* C4: starting from no client counter row for year y, the k-th successful
\* call of generate_custom_id('client', y), the calls being made one after
\* the other, returns 'UB' + y + 'C' + k.
C4_ClientSequence ==
    \A y \in Years :
        ScopeKeyOf(Request("client", y, None)) \notin DOMAIN InitialCounters
        => \A k \in 1..Len(ClientIds(y)) :
              ClientIds(y)[k].id = "UB" \o y \o "C" \o ToString(k)

\* Three client calls of 2025 have returned UB2025C1, UB2025C2, UB2025C3.
C4_Witness ==
    /\ Len(ClientIds("2025")) = 3
    /\ ClientIds("2025")[1].id = "UB2025C1"
    /\ ClientIds("2025")[2].id = "UB2025C2"
    /\ ClientIds("2025")[3].id = "UB2025C3"

----------------------------------------------------------------------------
(* C5 *)

\* C5: every successful call returns the template of its counter_type applied
\* to the counter value it has just committed.
C5_TemplateOfStoredValue ==
    \A p \in Procs :
        outcome[p].kind = "ok"
        => /\ args[p].ct \in FiveKinds
           /\ stored[p] >= 1
           /\ outcome[p].id = Template(args[p], stored[p])

\* The first project allocation of owner UB2024C1 has returned UB2024C1P1,
\* and a quote and an order allocation have returned their identifiers.
C5_Witness ==
    /\ \E p \in Procs :
          /\ args[p] = Request("project", "2024", "UB2024C1")
          /\ stored[p] = 1
          /\ outcome[p].id = "UB2024C1P1"
    /\ \E i, j \in 1..Len(issued) :
          /\ issued[i].id = "UB2024C2Q1"
          /\ issued[j].id = "UB2024C1OR1"

----------------------------------------------------------------------------
(* C6 *)

\* C6: a call of a non-client kind whose user_id matches no row of users
\* (None included) never reaches the counter table, ends with the
\* unknown-owner error unless the store failed first, and no counter row
\* exists for its key.
C6_UnknownOwnerRejected ==
    \A p \in Procs :
        (pc[p] # "idle" /\ args[p].ct # "client" /\ args[p].uid \notin users)
        => /\ pc[p] \in {"owner", "done"}
           /\ pc[p] = "done" => outcome[p].kind \in {"UnknownOwner"} \cup ForcedFailures
           /\ stored[p] = 0
           /\ \A k \in Keys :
                 (k.ct = args[p].ct /\ k.year = args[p].year /\ k.uid = args[p].uid)
                 => Cell(k) = NoRow

\* Both ways of naming no owner have ended with the unknown-owner error.
C6_Witness ==
    \E p, q \in Procs :
        /\ args[p] = Request("project", "2024", "NO_SUCH_USER")
        /\ outcome[p].kind = "UnknownOwner"
        /\ args[q] = Request("project", "2024", None)
        /\ outcome[q].kind = "UnknownOwner"

----------------------------------------------------------------------------
(* C7 *)

\* C7: a call that fails, for whatever reason, has committed nothing: the
\* counter table is as it was before the call.
C7_FailedCallCommitsNothing ==
    \A p \in Procs :
        (pc[p] = "done" /\ outcome[p].kind # "ok") => stored[p] = 0

----------------------------------------------------------------------------
(* C8 *)

\* C8: a call whose counter_type is none of the five kinds, made for an
\* existing owner, fails with the invalid-counter-type error (the store
\* having forced no failure).
C8_InvalidTypeRejected ==
    \A p \in Procs :
        ( /\ pc[p] = "done"
          /\ args[p].ct \notin FiveKinds
          /\ args[p].uid \in users
          /\ outcome[p].kind \notin ForcedFailures )
        => outcome[p].kind = "InvalidCounterType"

----------------------------------------------------------------------------
(* C9 *)

\* a storage failure after the locking read or after the UPDATE/INSERT
MidTransactionFailure(p) ==
    /\ pc[p] \in {"write", "commit"}
    /\ pc'[p] = "done"
    /\ outcome'[p].kind = "StorageFailure"

\* the failure leaves every stored value as it was and no lock behind
C9_FailureStep ==
    \A p \in Procs :
        MidTransactionFailure(p)
        => /\ id_counters' = id_counters
           /\ \A k \in Keys : Holder(k)' # p

\* what a call is about to commit is the successor of the stored value
C9_NextIsSuccessor ==
    \A p \in Procs :
        (pc[p] = "commit" /\ args[p].ct \in FiveKinds)
        => counter[p] = IF Cell(ScopeKey(p)) = NoRow
                        THEN 1 ELSE Cell(ScopeKey(p)).n + 1

\* C9: a forced storage failure after the transaction has begun leaves the
\* stored value v unchanged and the row unlocked, and the next successful
\* allocation on the key commits and returns v + 1.
C9_FailureLeavesCounter ==
    /\ [][C9_FailureStep]_vars
    /\ []C9_NextIsSuccessor

\* A call failed after it had fetched the value 1 under the lock, and the
\* next call on the key has returned 2.
C9_Witness ==
    \E p, q \in Procs :
        /\ p # q
        /\ args[p] = args[q]
        /\ outcome[q].kind = "StorageFailure"
        /\ result[q] = IntVal(1)
        /\ outcome[p].kind = "ok"
        /\ outcome[p].n = 2
        /\ Cell(ScopeKey(p)) = IntVal(2)

----------------------------------------------------------------------------
(* C10 *)

\* stored values that are no number: NULL, a date, a string that is no digits
NonNumericCells == {NullVal, DateVal, StrVal(<<"a", "b">>)}

\* the call that fetched such a cell goes on with 1 and returns number 1
C10_GoesOnWithOne ==
    \A p \in Procs :
        result[p] \in NonNumericCells
        => /\ pc[p] \in {"commit", "format", "done"} => counter[p] = 1
           /\ pc[p] \in {"format", "done"} => stored[p] = 1
           /\ pc[p] = "done" => /\ outcome[p].kind = "ok"
                                /\ outcome[p].n = 1
                                /\ outcome[p].id = Template(args[p], 1)

\* its commit stores 1 in the row
C10_CommitStep ==
    \A p \in Procs :
        (CommitStep(p) /\ result[p] \in NonNumericCells)
        => Cell(ScopeKey(p))' = IntVal(1)

\* C10: when the counter row of the key exists and its stored value is not
\* numeric, generate_custom_id does not raise: it stores 1 in the row and
\* returns the identifier with number 1.
C10_NonNumericRestartsAtOne ==
    /\ []C10_GoesOnWithOne
    /\ [][C10_CommitStep]_vars

\* A call has fetched a date from a row that had reached 2; it has returned
\* number 1 and the row holds 1.
C10_Witness ==
    \E p \in Procs :
        /\ result[p] = DateVal
        /\ outcome[p].kind = "ok"
        /\ outcome[p].n = 1
        /\ Cell(ScopeKey(p)) = IntVal(1)
        /\ \E i \in 1..Len(issued) : issued[i].req = args[p] /\ issued[i].n = 2

----------------------------------------------------------------------------
(* C11 *)

\* the number stored under key k, 0 when the key has no row
StoredNumber(k) == IF Cell(k) = NoRow THEN 0 ELSE Cell(k).n

\* every change of a stored value is made by the commit of a call on that
\* key and adds one; every commit makes such a change
C11_Step ==
    /\ \A k \in DOMAIN id_counters \cup DOMAIN id_counters' :
          Cell(k)' # Cell(k)
          => /\ \E p \in Procs : CommitStep(p) /\ KeyOf(p) = k
             /\ Cell(k)' = IntVal(StoredNumber(k) + 1)
    /\ \A p \in Procs :
          CommitStep(p) => Cell(KeyOf(p))' = IntVal(StoredNumber(KeyOf(p)) + 1)

\* a call that has returned has committed once, the number it returned
C11_CommittedOnce ==
    \A p \in Procs :
        outcome[p].kind = "ok"
        => /\ stored[p] = outcome[p].n
           /\ StoredNumber(ScopeKey(p)) >= stored[p]

\* no number is handed out twice for one key
C11_NeverIssuedTwice ==
    \A i, j \in 1..Len(issued) :
        (i # j /\ ScopeKeyOf(issued[i].req) = ScopeKeyOf(issued[j].req))
        => issued[i].n # issued[j].n

\* C11: with generate_custom_id the only writer of the counter table, each
\* successful call changes the stored value of its key exactly once, from v
\* to v + 1 (from absent to 1 on the first call); the stored value never
\* decreases and no number is issued twice for a key.
C11_OneStepPerAllocation ==
    /\ [][C11_Step]_vars
    /\ [](C11_CommittedOnce /\ C11_NeverIssuedTwice)

\* Two calls on a key that had no row have returned 1 and 2, and the row
\* holds 2.
C11_Witness ==
    \E i, j \in 1..Len(issued) :
        /\ i < j
        /\ issued[i].req = issued[j].req
        /\ ScopeKeyOf(issued[i].req) \notin DOMAIN InitialCounters
        /\ issued[i].n = 1
        /\ issued[j].n = 2
        /\ Cell(ScopeKeyOf(issued[i].req)) = IntVal(2)

----------------------------------------------------------------------------
(* C12 *)

\* no step removes a counter row or lowers its value
C12_RowsKept ==
    \A k \in DOMAIN id_counters :
        /\ k \in DOMAIN id_counters'
        /\ id_counters'[k].n >= id_counters[k].n

\* C12: a counter row, once created, is never deleted or reset by any
\* operation of the program, delete_user on any user_id included.
C12_RowsNeverDeleted == [][C12_RowsKept]_vars

----------------------------------------------------------------------------
(* C13 *)

\* the call is between its locking read and its commit or rollback
InTransaction(p) == pc[p] \in {"write", "commit"}

\* C13: calls on the same key are serialized: at any time at most one call
\* is between its locking read of the key's counter and its commit or
\* rollback.
C13_OneCallPerKey ==
    \A p, q \in Procs :
        (p # q /\ InTransaction(p) /\ InTransaction(q)
            /\ args[p].ct \in FiveKinds /\ args[q].ct \in FiveKinds)
        => ScopeKey(p) # ScopeKey(q)

----------------------------------------------------------------------------
(* C14 *)

\* the statements of the call between its locking read and its commit
TransactionStep(p) ==
    LockingRead(p) \/ Update(p) \/ Insert(p) \/ InsertRefused(p) \/ Commit(p)

\* C14: a call is never blocked by a concurrent call on a different key:
\* when no other call on its key is in its transaction, the call can
\* perform its locking read, its write and its commit without waiting.
C14_NeverBlockedByOtherKey ==
    \A p \in Procs :
        ( /\ pc[p] \in {"select", "write", "commit"}
          /\ args[p].ct \in FiveKinds
          /\ \A q \in Procs \ {p} :
                InTransaction(q) => KeyOf(q) # KeyOf(p) )
        => ENABLED TransactionStep(p)

----------------------------------------------------------------------------
(* C15 *)

\* the step that hands an identifier to the caller
ReturnStep(p) == outcome[p].kind # "ok" /\ outcome'[p].kind = "ok"

\* an identifier is handed out only by a call that is past its commit, and
\* it carries the number that commit stored
C15_Step ==
    \A p \in Procs :
        ReturnStep(p)
        => /\ pc[p] = "format"
           /\ stored[p] >= 1
           /\ outcome'[p].n = stored[p]
           /\ StoredNumber(ScopeKey(p)) >= stored[p]

\* a call that ended without a commit returned no identifier
C15_RolledBackReturnsNothing ==
    \A p \in Procs :
        (pc[p] = "done" /\ stored[p] = 0)
        => /\ outcome[p].kind # "ok"
           /\ outcome[p].id = ""

\* C15: no identifier is handed to the caller before its transaction
\* commits: when a call returns the identifier with number n for key k, the
\* commit that stored n for k has happened, and a call whose transaction was
\* rolled back returns no identifier.
C15_NoIdBeforeCommit ==
    /\ [][C15_Step]_vars
    /\ []C15_RolledBackReturnsNothing

\* One call has returned the number it committed; another one was rolled
\* back at its commit and its caller holds an error.
C15_Witness ==
    \E p, q \in Procs :
        /\ outcome[p].kind = "ok"
        /\ stored[p] = outcome[p].n
        /\ pc[q] = "done"
        /\ counter[q] >= 1
        /\ stored[q] = 0
        /\ outcome[q].kind = "StorageFailure"

----------------------------------------------------------------------------
(* C16 *)

\* create_quote returns after generate_custom_id raised inside it
AllocationFailedReturn(p) ==
    /\ cq[p].stage = "allocating"
    /\ pc[p] = "done"
    /\ outcome[p].kind # "ok"
    /\ cq'[p].stage = "returned"

\* it returns failure, inserts no quote row and commits nothing: the
\* committed quotes and projects are as they were (its rollback takes the
\* tables of the admin connection back to them)
C16_Step ==
    \A p \in Procs :
        AllocationFailedReturn(p)
        => /\ cq'[p].ok = FALSE
           /\ committed' = committed
           /\ quotes' \subseteq quotes
           /\ projects' \in {projects, committed.projects}

\* every quote row carries an identifier that generate_custom_id returned
C16_QuotesCarryIssuedIds ==
    \A q \in quotes : \E i \in 1..Len(issued) : issued[i].id = q.quote_id

\* C16: when generate_custom_id raises inside create_quote, create_quote
\* returns failure, inserts no quote row, and leaves the project's status
\* and amount unchanged.
C16_NoQuoteWithoutId ==
    /\ [][C16_Step]_vars
    /\ []C16_QuotesCarryIssuedIds

\* create_quote has returned failure after its allocation raised; there is
\* no quote and the project is as it was uploaded.
C16_Witness ==
    \E p \in Procs :
        /\ cq[p].stage = "returned"
        /\ cq[p].alloc = "raised"
        /\ cq[p].ok = FALSE
        /\ quotes = {}
        /\ projects = InitialProjects

----------------------------------------------------------------------------
(* C17 *)

\* a call that failed on the store gave its caller an error and nothing
\* else; one that could not connect has read and written nothing
C17_ErrorAndNoIdentifier ==
    \A p \in Procs :
        /\ outcome[p].kind \in ForcedFailures
           => /\ pc[p] = "done"
              /\ outcome[p].id = ""
              /\ stored[p] = 0
        /\ outcome[p].kind = "ConnectionFailed"
           => /\ result[p] = NoRow
              /\ counter[p] = 0

\* the step in which the store fails: the connection cannot be opened, or a
\* statement or the commit fails
C17_Step ==
    \A p \in Procs :
        /\ (outcome[p].kind # "ConnectionFailed" /\ outcome'[p].kind = "ConnectionFailed")
           => /\ pc[p] \in {"idle", "done"}
              /\ UNCHANGED <<id_counters, rowLock, gapLock, issued>>
        /\ (pc[p] = "commit" /\ pc'[p] = "done")
           => /\ outcome'[p].kind = "StorageFailure"
              /\ UNCHANGED <<id_counters, issued>>

\* C17: when the store cannot be reached or the commit fails, the call
\* propagates a storage error and returns no identifier; when the
\* connection cannot be opened it fails before any read or write.
C17_StorageErrorPropagates ==
    /\ []C17_ErrorAndNoIdentifier
    /\ [][C17_Step]_vars

\* One call could not connect; another failed at its commit.
C17_Witness ==
    \E p, q \in Procs :
        /\ outcome[p].kind = "ConnectionFailed"
        /\ outcome[q].kind = "StorageFailure"
        /\ counter[q] >= 1
        /\ Len(issued) = 0

----------------------------------------------------------------------------
(* C18 *)

\* C18: each of the five counter types is allocatable: a call of one of the
\* five kinds for an existing owner, the calls being made one after the
\* other and the store forcing no failure, succeeds and leaves a row under
\* its counter_type.
C18_FiveTypesAllocatable ==
    \A p \in Procs :
        ( /\ pc[p] = "done"
          /\ args[p].ct \in FiveKinds
          /\ (args[p].ct = "client" \/ args[p].uid \in users)
          /\ outcome[p].kind \notin ForcedFailures )
        => /\ outcome[p].kind = "ok"
           /\ \E k \in DOMAIN id_counters : k.ct = args[p].ct

----------------------------------------------------------------------------
(* C19 *)

\* C19: every counter row has scope 'GLOBAL' or the user_id of a user that
\* exists, whatever the interleaving of generate_custom_id and delete_user.
C19_NoOrphanedCounters ==
    \A k \in DOMAIN id_counters : k.uid = "GLOBAL" \/ k.uid \in users

\* A user was deleted between the owner lookup and the INSERT of a call: the
\* INSERT was refused; the other user's counter row is there.
C19_Witness ==
    \E p \in Procs :
        /\ outcome[p].kind = "ForeignKey"
        /\ args[p].uid \notin users
        /\ \E k \in DOMAIN id_counters : k.uid = "UB2024C2"

----------------------------------------------------------------------------
(* C20 *)

\* the row of the client counter of a year
ClientKey(year) == [ct |-> "client", year |-> year, uid |-> "GLOBAL"]

\* the key of a call: the GLOBAL row for client, the passed user_id
\* otherwise; a client call never fails for its user_id and, the store
\* forcing no failure, succeeds with the number of the GLOBAL row
C20_ScopeOfCall ==
    \A p \in Procs :
        /\ (pc[p] # "idle" /\ args[p].ct = "client")
           => /\ KeyOf(p) = ClientKey(args[p].year)
              /\ outcome[p].kind # "UnknownOwner"
              /\ (pc[p] = "done" /\ outcome[p].kind \notin ForcedFailures)
                 => /\ outcome[p].kind = "ok"
                    /\ outcome[p].id = "UB" \o args[p].year \o "C" \o ToString(outcome[p].n)
                    /\ StoredNumber(ClientKey(args[p].year)) >= outcome[p].n
        /\ (pc[p] # "idle" /\ args[p].ct \in FiveKinds \ {"client"})
           => KeyOf(p).uid = args[p].uid

\* the commit of a client call writes the GLOBAL row of its year and no other
C20_Step ==
    \A p \in Procs :
        (CommitStep(p) /\ args[p].ct = "client")
        => /\ Cell(ClientKey(args[p].year))' = IntVal(StoredNumber(ClientKey(args[p].year)) + 1)
           /\ \A k \in Keys : k # ClientKey(args[p].year) => Cell(k)' = Cell(k)

\* C20: the effective scope is 'GLOBAL' exactly when counter_type is
\* 'client' and the supplied user_id otherwise: a client allocation reads
\* and writes only the (client, year, GLOBAL) row whatever user_id is passed,
\* looks up no owner, and succeeds even when that user_id does not exist.
C20_ClientScopeIsGlobal ==
    /\ []C20_ScopeOfCall
    /\ [][C20_Step]_vars

\* A client call passed a user_id that does not exist and one passed an
\* existing user's: both succeeded on the GLOBAL rows.
C20_Witness ==
    \E i, j \in 1..Len(issued) :
        /\ issued[i].req = Request("client", "2025", "NO_SUCH_USER")
        /\ issued[i].id = "UB2025C1"
        /\ issued[j].req = Request("client", "2024", "UB2024C1")
        /\ issued[j].id = "UB2024C3"
        /\ Cell(ClientKey("2025")) = IntVal(1)
        /\ Cell(ClientKey("2024")) = IntVal(3)

----------------------------------------------------------------------------
(* C21 *)

\* the number v a stored cell represents: an integer, a string of digits,
\* a float with integer part v
NumericCells ==
    {IntVal(n) : n \in 1..3} \cup {StrVal(<<"1", "2">>), FloatVal(25)}

NumberOf(cell) ==
    CASE cell.t = "int" -> cell.n
      [] cell = StrVal(<<"1", "2">>) -> 12
      [] cell = FloatVal(25) -> 2

\* the call that fetched a cell representing v goes on with v + 1 and
\* returns the identifier with number v + 1
C21_GoesOnWithSuccessor ==
    \A p \in Procs :
        result[p] \in NumericCells
        => /\ pc[p] \in {"commit", "format", "done"}
              => counter[p] = NumberOf(result[p]) + 1
           /\ pc[p] \in {"format", "done"} => stored[p] = NumberOf(result[p]) + 1
           /\ pc[p] = "done"
              => /\ outcome[p].kind = "ok"
                 /\ outcome[p].id = Template(args[p], NumberOf(result[p]) + 1)

\* its commit stores v + 1 in the row
C21_CommitStep ==
    \A p \in Procs :
        (CommitStep(p) /\ result[p] \in NumericCells)
        => Cell(ScopeKey(p))' = IntVal(NumberOf(result[p]) + 1)

\* C21: when the stored value is an integer v, a string of digits
\* representing v or a float with integer part v, generate_custom_id stores
\* v + 1 and returns the identifier with number v + 1.  (That values of no
\* such shape restart at 1 is C10.)
C21_NumericShapesContinue ==
    /\ []C21_GoesOnWithSuccessor
    /\ [][C21_CommitStep]_vars

\* A call has fetched the string '12' and has returned number 13; the row
\* holds 13.
C21_Witness ==
    \E p \in Procs :
        /\ result[p] = StrVal(<<"1", "2">>)
        /\ outcome[p].kind = "ok"
        /\ outcome[p].n = 13
        /\ Cell(ScopeKey(p)) = IntVal(13)

----------------------------------------------------------------------------
(* C22 *)

\* C22: when the stored value of a key is replaced by a non-numeric value,
\* the next call on the key returns number 1 again, in the identifier that
\* the key's first allocation returned (or returns).
C22_DuplicateAfterCorruption ==
    \A p \in Procs :
        (pc[p] = "done" /\ result[p] \in NonNumericCells)
        => /\ outcome[p].kind = "ok"
           /\ outcome[p].n = 1
           /\ \A i \in 1..Len(issued) :
                 (ScopeKeyOf(issued[i].req) = ScopeKey(p) /\ issued[i].n = 1)
                 => issued[i].id = outcome[p].id

\* The row of a key that had issued 1 and 2 was set to NULL; the next call
\* has returned the first identifier again.
C22_Witness ==
    \E p \in Procs :
        /\ result[p] = NullVal
        /\ outcome[p].kind = "ok"
        /\ \E i, j, k \in 1..Len(issued) :
              /\ i < j /\ j < k
              /\ issued[i].req = args[p] /\ issued[j].req = args[p]
              /\ issued[k].req = args[p]
              /\ issued[i].n = 1 /\ issued[j].n = 2
              /\ issued[k].id = issued[i].id

----------------------------------------------------------------------------
(* C23 *)

\* two calls wait for each other: each is at its INSERT and each holds a
\* lock on the gap the other's row goes into
Deadlocked(p, q) ==
    /\ p # q
    /\ pc[p] = "write" /\ result[p] = NoRow /\ HasKey(p)
    /\ pc[q] = "write" /\ result[q] = NoRow /\ HasKey(q)
    /\ GapHeldBy(q, p)
    /\ GapHeldBy(p, q)

\* C23: the locks of a call are released when it ends, so there is no
\* deadlock between concurrent callers, on the same key or on different
\* keys, a key with no row yet included: no two calls wait for each other
\* and no call is ended as the victim of one.
C23_NoDeadlock ==
    /\ \A p, q \in Procs : ~Deadlocked(p, q)
    /\ \A p \in Procs : outcome[p].kind # "Deadlock"

----------------------------------------------------------------------------
(* C24 *)

\* C24: a create_quote call that returns failure leaves the owner's quote
\* counter unchanged: it has allocated no number.
C24_FailedQuoteAllocatesNothing ==
    \A p \in Procs :
        (cq[p].stage = "returned" /\ ~cq[p].ok) => cq[p].alloc # "ok"

----------------------------------------------------------------------------
(* C25 *)

\* C25: create_quote is atomic on the quotes and projects tables: it
\* inserts the quote row and sets the project to 'quoted' with amount =
\* total_price, or changes neither, so that a project create_quote has set
\* to 'quoted' always has a matching quote row.  Stated on the committed
\* tables.
C25_QuotedHasQuote ==
    \A i \in DOMAIN committed.projects :
        committed.projects[i].status = "quoted"
        => \E q \in committed.quotes :
              /\ q.project_id = i
              /\ q.user_id = committed.projects[i].user_id
              /\ q.total_price = committed.projects[i].amount

----------------------------------------------------------------------------
(* C26 *)

\* C26: an endpoint under /admin/api/ returns its data (or performs its
\* mutation) only when the request's admin_session_id is one that
\* verify_admin_session accepts; otherwise it answers Unauthorized.
C26_DataOnlyWithSession ==
    \A p \in Procs :
        (thread[p].op \in Endpoints /\ thread[p].stage = "returned"
            /\ thread[p].answer = "data")
        => thread[p].accepted

----------------------------------------------------------------------------
(* C27 *)

\* C27: after admin_logout(session_id) has returned, or remove_admin of
\* its admin has, verify_admin_session(session_id) returns False in every
\* later state.
C27_RejectedAfterLogoutOrRemoval ==
    \A session_id \in DOMAIN admin_sessions :
        VerifyAdminSession(session_id)
        => /\ session_id \notin audit.logged_out
           /\ admin_sessions[session_id].email \notin audit.removed

----------------------------------------------------------------------------
(* C28 *)

\* a verify_admin_otp call for the email has found a valid OTP: it has
\* returned True, or it is past its UPDATEs, at its commit
OtpAccepted(email) ==
    \/ email \in audit.verified
    \/ \E p \in Procs :
          At(p, "verify_admin_otp", "commit") /\ thread[p].email = email

\* admin_login goes on to create the session
LoginAccepts(p) ==
    /\ thread[p].stage # "insert"
    /\ thread'[p].op = "admin_login"
    /\ thread'[p].stage = "insert"

\* ... only for a row that is active and verified, with the password the
\* row's hash was made of
C28_Step ==
    \A p \in Procs :
        LoginAccepts(p)
        => /\ thread'[p].email \in DOMAIN admins
           /\ admins[thread'[p].email].is_active
           /\ admins[thread'[p].email].is_verified
           /\ admins[thread'[p].email].password
                 = HashPw(thread'[p].password)

\* admin_login returns True only from there
C28_SuccessStep ==
    \A p \in Procs :
        (thread'[p].op = "admin_login" /\ thread'[p].answer = "True"
            /\ thread[p] # thread'[p])
        => At(p, "admin_login", "commit")

\* a verified admin had an OTP of its email accepted, and a session is the
\* session of a verified admin
C28_VerifiedByOtp ==
    /\ \A email \in DOMAIN admins :
          admins[email].is_verified => OtpAccepted(email)
    /\ \A session_id \in DOMAIN admin_sessions :
          /\ admin_sessions[session_id].email \in DOMAIN admins
          /\ admins[admin_sessions[session_id].email].is_verified
    /\ \A p \in Procs :
          At(p, "admin_login", "commit") => OtpAccepted(thread[p].email)

----------------------------------------------------------------------------
(* C29 *)

\* C29: each stored OTP row makes at most one verify_admin_otp call
\* succeed, in any sequence or interleaving of the calls.
C29_SingleUse ==
    \A otp_id \in DOMAIN audit.uses : audit.uses[otp_id] <= 1

----------------------------------------------------------------------------
(* C30 *)

\* no two rows of the table t share an admin_type, and there are at most
\* three rows
UniqueTypes(t) ==
    /\ \A x, y \in DOMAIN t : t[x].admin_type = t[y].admin_type => x = y
    /\ Cardinality(DOMAIN t) <= 3
    /\ Cardinality({x \in DOMAIN t : t[x].is_active}) <= 3

\* C30: after any sequence or interleaving of register_admin and
\* remove_admin calls, no two admin rows share an admin_type; at most
\* three admins exist and at most three are active.
C30_OneAdminPerType == UniqueTypes(admins) /\ UniqueTypes(committed.admins)

\* Two registrations of one type passed their SELECTs together: one has
\* inserted its row, the other is at its INSERT.
C30_Witness ==
    \E p, q \in Procs :
        /\ At(p, "register_admin", "insert")
        /\ thread[q].op = "register_admin"
        /\ thread[q].stage \in {"commit", "returned"}
        /\ \E x \in DOMAIN admins :
              /\ admins[x].admin_type = thread[p].admin_type
              /\ x # thread[p].email

====
